---- MODULE Spec2Model ----
(***************************************************************************)
(* TextMetrics (src/src/textUtils.js): wordCount, charCount, readingTime.  *)
(* A JavaScript string is a sequence of UTF-16 code units; the argument of *)
(* a call is a string, null or undefined.  A call ends in a completion:    *)
(* a normal return of a number, or a thrown TypeError.                     *)
(* The pipeline of the walkthrough (.github/workflows/pipeline.yml): the   *)
(* jobs test, build-and-push and deploy of every workflow run.             *)
(***************************************************************************)
EXTENDS Integers, Sequences, FiniteSets, TLC

VARIABLES text, fn, ret, edit, args, seen, runs, registry, pages

\* the argument each caller holds, and one remembered earlier call
callVars == <<args, seen>>

\* the workflow runs, the container registry and the GitHub Pages site
pipeVars == <<runs, registry, pages>>

vars == <<text, fn, ret, edit, args, seen, runs, registry, pages>>

\* ---------------------------------------------------------------- bounds
MaxLen == 5

MaxWords == 402

CallLen == 1

MaxRuns == 2

\* code units used to build the inputs: space, tab, newline, 'a', '-'
Chars == {32, 9, 10, 97, 45}

\* ------------------------------------------------------------ JS values
Undefined == [kind |-> "undefined", chars |-> <<>>]

Null == [kind |-> "null", chars |-> <<>>]

Str(s) == [kind |-> "string", chars |-> s]

IsString(v) == v.kind = "string"

\* !text is true exactly when ToBoolean(text) is false:
\* undefined, null and the empty string are falsy
ToBoolean(v) == IsString(v) /\ Len(v.chars) > 0

Return(n) == [type |-> "normal", value |-> n]

ThrowTypeError == [type |-> "throw", value |-> -1]

NoCompletion == [type |-> "none", value |-> -1]

\* the characters matched by \s and stripped by trim():
\* the ECMAScript WhiteSpace and LineTerminator code points
WhiteSpaceCodes ==
    {9, 10, 11, 12, 13, 32, 160, 5760, 8232, 8233, 8239, 8287, 12288, 65279}
        \cup (8192 .. 8202)

IsWhiteSpace(c) == c \in WhiteSpaceCodes

\* smallest index i >= q with IsWhiteSpace(S[i]) # ws, or Len(S) + 1
RECURSIVE SkipWhile(_, _, _)
SkipWhile(S, q, ws) ==
    IF q > Len(S) THEN Len(S) + 1
    ELSE IF IsWhiteSpace(S[q]) # ws THEN q
    ELSE SkipWhile(S, q + 1, ws)

\* largest index i <= q with a non-whitespace S[i], or 0
RECURSIVE LastNonWhiteSpace(_, _)
LastNonWhiteSpace(S, q) ==
    IF q < 1 THEN 0
    ELSE IF ~IsWhiteSpace(S[q]) THEN q
    ELSE LastNonWhiteSpace(S, q - 1)

trimStart(S) == SubSeq(S, SkipWhile(S, 1, TRUE), Len(S))

\* String.prototype.trim
trim(S) == SubSeq(S, SkipWhile(S, 1, TRUE), LastNonWhiteSpace(S, Len(S)))

\* S.split(/\s/): every single whitespace character is a separator
RECURSIVE SplitEachFrom(_, _)
SplitEachFrom(S, p) ==
    LET q == SkipWhile(S, p, FALSE)
    IN  IF q > Len(S) THEN << SubSeq(S, p, Len(S)) >>
        ELSE << SubSeq(S, p, q - 1) >> \o SplitEachFrom(S, q + 1)

\* S.split(' '): only the space character is a separator
RECURSIVE SplitSpaceFrom(_, _)
SplitSpaceFrom(S, p) ==
    IF \A i \in p .. Len(S) : S[i] # 32 THEN << SubSeq(S, p, Len(S)) >>
    ELSE LET q == CHOOSE i \in p .. Len(S) :
                      S[i] = 32 /\ \A j \in p .. (i - 1) : S[j] # 32
         IN  << SubSeq(S, p, q - 1) >> \o SplitSpaceFrom(S, q + 1)

split_space(S) == SplitSpaceFrom(S, 1)

split_each(S) == SplitEachFrom(S, 1)

\* S.split(/\s*/): the empty match separates every two characters
split_star(S) ==
    IF Len(S) = 0 THEN << >>
    ELSE LET T == SelectSeq(S, LAMBDA c : ~IsWhiteSpace(c))
         IN  [i \in 1 .. Len(T) |-> << T[i] >>]

IsWordChar(c) ==
    (c \in 48 .. 57) \/ (c \in 65 .. 90) \/ (c \in 97 .. 122) \/ c = 95

\* S.split(/\W+/): every run of non-word characters is a separator
RECURSIVE SplitNonWordFrom(_, _)
SplitNonWordFrom(S, p) ==
    IF \A i \in p .. Len(S) : IsWordChar(S[i]) THEN << SubSeq(S, p, Len(S)) >>
    ELSE LET q == CHOOSE i \in p .. Len(S) :
                      ~IsWordChar(S[i]) /\ \A j \in p .. (i - 1) : IsWordChar(S[j])
             e == IF \A i \in q .. Len(S) : ~IsWordChar(S[i]) THEN Len(S) + 1
                  ELSE CHOOSE i \in q .. Len(S) :
                           IsWordChar(S[i]) /\ \A j \in q .. (i - 1) : ~IsWordChar(S[j])
         IN  << SubSeq(S, p, q - 1) >> \o SplitNonWordFrom(S, e)

split_nonword(S) == SplitNonWordFrom(S, 1)

Indices(S) == [i \in 1 .. Len(S) |-> i]

\* the matches of \s+ found scanning S from left to right are the maximal
\* runs of whitespace: the positions where they start and where they end
MatchStarts(S) ==
    SelectSeq(Indices(S),
              LAMBDA i : IsWhiteSpace(S[i]) /\ (i = 1 \/ ~IsWhiteSpace(S[i - 1])))

MatchEnds(S) ==
    SelectSeq(Indices(S),
              LAMBDA i : IsWhiteSpace(S[i]) /\ (i = Len(S) \/ ~IsWhiteSpace(S[i + 1])))

\* the array of the substrings before the first match, between every two
\* consecutive matches and after the last match (empty substrings included)
Substrings(S, starts, ends) ==
    [j \in 1 .. (Len(starts) + 1) |->
        SubSeq(S, IF j = 1 THEN 1 ELSE ends[j - 1] + 1,
                  IF j = Len(starts) + 1 THEN Len(S) ELSE starts[j] - 1)]

\* String.prototype.split with the separator /\s+/
split(S) == Substrings(S, MatchStarts(S), MatchEnds(S))

\* S.replace(/\s/g, '') from position p: the text before each match is
\* kept, the matched character is replaced by the empty string
RECURSIVE ReplaceFrom(_, _)
ReplaceFrom(S, p) ==
    LET q == SkipWhile(S, p, FALSE)
    IN  IF q > Len(S) THEN SubSeq(S, p, Len(S))
        ELSE SubSeq(S, p, q - 1) \o ReplaceFrom(S, q + 1)

\* S.replace(/ /g, ''): only the space character is removed
replace_space(S) == SelectSeq(S, LAMBDA c : c # 32)

\* S.replace(/\s/, ''): without the g flag only the first match is removed
replace_first(S) ==
    LET q == SkipWhile(S, 1, FALSE)
    IN  SubSeq(S, 1, q - 1) \o SubSeq(S, q + 1, Len(S))

\* String.prototype.replace with /\s/g and ''
replace(S) == ReplaceFrom(S, 1)

\* Math.floor(n / d), Math.round(n / d) for integers n >= 0, d > 0
MathFloor(n, d) == n \div d

MathRound(n, d) == (2 * n + d) \div (2 * d)

\* Math.ceil(n / d) for integers n >= 0, d > 0
MathCeil(n, d) == IF n % d = 0 THEN n \div d ELSE (n \div d) + 1

\* ------------------------------------------------------- the functions
\* wordCount without the trim() === '' test
wordCount_noBlankTest(t) ==
    IF ~ToBoolean(t) THEN Return(0)
    ELSE IF ~IsString(t) THEN ThrowTypeError
    ELSE Return(Len(split(trim(t.chars))))

\* wordCount counting the separators instead of the tokens
wordCount_countSeparators(t) ==
    IF ~ToBoolean(t) THEN Return(0)
    ELSE IF ~IsString(t) THEN ThrowTypeError
    ELSE IF trim(t.chars) = << >> THEN Return(0)
    ELSE Return(Len(split(trim(t.chars))) - 1)

\* wordCount behind a module-level cache of the last result that is
\* returned without comparing the argument
wordCount_lastResult(t) ==
    IF fn = "wordCount" THEN ret
    ELSE IF ~ToBoolean(t) THEN Return(0)
    ELSE IF ~IsString(t) THEN ThrowTypeError
    ELSE IF trim(t.chars) = << >> THEN Return(0)
    ELSE Return(Len(split(trim(t.chars))))

\* function wordCount(text)
wordCount(t) ==
    IF ~ToBoolean(t) THEN Return(0)
    ELSE IF ~IsString(t) THEN ThrowTypeError
    ELSE IF trim(t.chars) = << >> THEN Return(0)
    ELSE Return(Len(split(trim(t.chars))))

\* charCount without the !text guard: text.replace on null or undefined
charCount_noGuard(t) ==
    IF ~IsString(t) THEN ThrowTypeError
    ELSE Return(Len(replace(t.chars)))

\* function charCount(text)
charCount(t) ==
    IF ~ToBoolean(t) THEN Return(0)
    ELSE IF ~IsString(t) THEN ThrowTypeError
    ELSE Return(Len(replace(t.chars)))

WORDS_PER_MINUTE == 200

\* function readingTime(text)
readingTime(t) ==
    LET words == wordCount(t)
    IN  IF words.type = "throw" THEN words
        ELSE Return(MathCeil(words.value, WORDS_PER_MINUTE))

\* ----------------------------------------------------------- the inputs
Strings(n) == UNION {[1 .. m -> Chars] : m \in 0 .. n}

Inputs == {Undefined, Null} \cup {Str(s) : s \in Strings(MaxLen)}

WhiteSpaceChars == {c \in Chars : IsWhiteSpace(c)}

\* 'word ', the unit the tests repeat to build a text of n words
WordUnit == <<119, 111, 114, 100, 32>>

NoEdit == [kind |-> "none", pos |-> 0, len |-> 0]

\* the exported functions
Functions == {"wordCount", "charCount", "readingTime"}

Apply(f, t) ==
    CASE f = "wordCount" -> wordCount(t)
      [] f = "charCount" -> charCount(t)
      [] f = "readingTime" -> readingTime(t)

Callers == {"c1", "c2"}

\* the arguments the callers pass: undefined, null and short strings of
\* spaces and letters
CallInputs ==
    {Undefined, Null}
        \cup {Str(s) : s \in UNION {[1 .. m -> {32, 97}] : m \in 0 .. CallLen}}

NoCall == [fn |-> "none", arg |-> Undefined, ret |-> NoCompletion, later |-> 0]

CallsIdle ==
    /\ args = [c \in Callers |-> Undefined]
    /\ seen = NoCall

\* ---------------------------------------------------------- the pipeline
RunIds == 1 .. MaxRuns

Jobs == {"test", "build-and-push", "deploy"}

\* needs: of each job
Needs(j) ==
    CASE j = "test" -> {}
      [] j = "build-and-push" -> {"test"}
      [] j = "deploy" -> {"build-and-push"}

\* number of steps: of each job
NumSteps(j) ==
    CASE j = "test" -> 5
      [] j = "build-and-push" -> 3
      [] j = "deploy" -> 4

\* on: push to any branch, and pull_request
Triggers ==
    {[event |-> "push", ref |-> "refs/heads/main"],
     [event |-> "push", ref |-> "refs/heads/feature"],
     [event |-> "pull_request", ref |-> "refs/pull/1/merge"]}

NoRun ==
    [event |-> "none", ref |-> "none",
     status |-> [j \in Jobs |-> "none"], step |-> [j \in Jobs |-> 0]]

PipelineIdle ==
    /\ runs = [r \in RunIds |-> NoRun]
    /\ registry = [latest |-> 0, shas |-> {}]
    /\ pages = 0

\* a job whose if: is dropped runs whatever the ref
JobIf_noCondition(run, j) == TRUE

\* if: of each job (build-and-push: github.ref == 'refs/heads/main')
JobIf(run, j) ==
    IF j = "build-and-push" THEN run.ref = "refs/heads/main" ELSE TRUE

NeedsCompleted(run, j) ==
    \A n \in Needs(j) : run.status[n] \in {"success", "failure", "skipped"}

\* if: always() in place of the implied success()
NeedsSucceeded_always(run, j) == TRUE

\* the success() implied for a job: every job it needs succeeded
NeedsSucceeded(run, j) == \A n \in Needs(j) : run.status[n] = "success"

Init ==
    /\ text \in Inputs
    /\ fn = "none"
    /\ ret = NoCompletion
    /\ edit = NoEdit
    /\ CallsIdle
    /\ PipelineIdle

\* a caller evaluates wordCount(text)
CallWordCount ==
    /\ fn' = "wordCount"
    /\ ret' = wordCount(text)
    /\ UNCHANGED <<text, edit, callVars, pipeVars>>

\* a caller evaluates charCount(text)
CallCharCount ==
    /\ fn' = "charCount"
    /\ ret' = charCount(text)
    /\ UNCHANGED <<text, edit, callVars, pipeVars>>

\* a caller evaluates readingTime(text)
CallReadingTime ==
    /\ fn' = "readingTime"
    /\ ret' = readingTime(text)
    /\ UNCHANGED <<text, edit, callVars, pipeVars>>

\* the caller's next input is the text with the whitespace run w
\* inserted after its first k characters
InsertWhiteSpace(k, w) ==
    /\ IsString(text)
    /\ k \in 0 .. Len(text.chars)
    /\ text' = Str(SubSeq(text.chars, 1, k) \o w
                   \o SubSeq(text.chars, k + 1, Len(text.chars)))
    /\ edit' = [kind |-> "insert", pos |-> k, len |-> Len(w)]
    /\ fn' = "none"
    /\ ret' = NoCompletion
    /\ UNCHANGED <<callVars, pipeVars>>

Insert ==
    /\ IsString(text)
    /\ \E r \in 1 .. (MaxLen - Len(text.chars)) :
         \E w \in [1 .. r -> WhiteSpaceChars] :
           \E k \in 0 .. Len(text.chars) : InsertWhiteSpace(k, w)

\* the caller's next input is the text followed by one more 'word '
RepeatWord ==
    /\ IsString(text)
    /\ Len(text.chars) < Len(WordUnit) * MaxWords
    /\ text' = Str(text.chars \o WordUnit)
    /\ edit' = [kind |-> "repeat", pos |-> Len(text.chars), len |-> Len(WordUnit)]
    /\ fn' = "none"
    /\ ret' = NoCompletion
    /\ UNCHANGED <<callVars, pipeVars>>

Next ==
    \/ CallWordCount
    \/ CallCharCount
    \/ CallReadingTime
    \/ Insert

Spec == Init /\ [][Next]_vars

\* long texts: 'word '.repeat(n) after an optional whitespace prefix
InitRT ==
    /\ text \in {Undefined, Null, Str(<< >>), Str(<<32>>), Str(<<10, 9>>)}
    /\ fn = "none"
    /\ ret = NoCompletion
    /\ edit = NoEdit
    /\ CallsIdle
    /\ PipelineIdle

NextRT ==
    \/ RepeatWord
    \/ CallReadingTime

SpecRT == InitRT /\ [][NextRT]_vars

\* callers: each holds its own argument and calls the functions in any
\* order; one earlier call is remembered with the number of calls since
Choose(c, v) ==
    /\ args' = [args EXCEPT ![c] = v]
    /\ UNCHANGED <<text, fn, ret, edit, seen, pipeVars>>

CallBy(c, f) ==
    /\ text' = args[c]
    /\ fn' = f
    /\ ret' = Apply(f, args[c])
    /\ edit' = NoEdit
    /\ \/ seen' = [fn |-> f, arg |-> args[c], ret |-> ret', later |-> 0]
       \/ /\ seen.fn # "none"
          /\ seen' = [seen EXCEPT !.later = IF @ < 2 THEN @ + 1 ELSE @]
       \/ /\ seen.fn = "none"
          /\ seen' = seen
    /\ UNCHANGED <<args, pipeVars>>

InitCalls ==
    /\ text = Undefined
    /\ fn = "none"
    /\ ret = NoCompletion
    /\ edit = NoEdit
    /\ args \in [Callers -> CallInputs]
    /\ seen = NoCall
    /\ PipelineIdle

NextCalls ==
    \/ \E c \in Callers : \E v \in CallInputs : Choose(c, v)
    \/ \E c \in Callers : \E f \in Functions : CallBy(c, f)

SpecCalls == InitCalls /\ [][NextCalls]_vars

\* workflow runs: an event starts a run, whose jobs start, are skipped,
\* and go through their steps
Trigger(r, t) ==
    /\ runs[r].event = "none"
    /\ runs' = [runs EXCEPT ![r] =
                   [event |-> t.event, ref |-> t.ref,
                    status |-> [j \in Jobs |-> "queued"],
                    step |-> [j \in Jobs |-> 0]]]
    /\ UNCHANGED <<text, fn, ret, edit, callVars, registry, pages>>

StartJob(r, j) ==
    /\ runs[r].status[j] = "queued"
    /\ NeedsCompleted(runs[r], j)
    /\ NeedsSucceeded(runs[r], j)
    /\ JobIf(runs[r], j)
    /\ runs' = [runs EXCEPT ![r].status[j] = "in_progress", ![r].step[j] = 1]
    /\ UNCHANGED <<text, fn, ret, edit, callVars, registry, pages>>

SkipJob(r, j) ==
    /\ runs[r].status[j] = "queued"
    /\ NeedsCompleted(runs[r], j)
    /\ ~(NeedsSucceeded(runs[r], j) /\ JobIf(runs[r], j))
    /\ runs' = [runs EXCEPT ![r].status[j] = "skipped"]
    /\ UNCHANGED <<text, fn, ret, edit, callVars, registry, pages>>

\* a step succeeds; the last step of build-and-push pushes the image
\* (tags latest and the commit SHA), the last step of deploy publishes
StepSucceeds(r, j) ==
    /\ runs[r].status[j] = "in_progress"
    /\ IF runs[r].step[j] < NumSteps(j)
       THEN /\ runs' = [runs EXCEPT ![r].step[j] = @ + 1]
            /\ UNCHANGED <<registry, pages>>
       ELSE /\ runs' = [runs EXCEPT ![r].status[j] = "success", ![r].step[j] = 0]
            /\ registry' = IF j = "build-and-push"
                           THEN [latest |-> r, shas |-> registry.shas \cup {r}]
                           ELSE registry
            /\ pages' = IF j = "deploy" THEN r ELSE pages
    /\ UNCHANGED <<text, fn, ret, edit, callVars>>

\* a step fails: the remaining steps do not run and the job fails
StepFails(r, j) ==
    /\ runs[r].status[j] = "in_progress"
    /\ runs' = [runs EXCEPT ![r].status[j] = "failure", ![r].step[j] = 0]
    /\ UNCHANGED <<text, fn, ret, edit, callVars, registry, pages>>

InitPipeline ==
    /\ text = Undefined
    /\ fn = "none"
    /\ ret = NoCompletion
    /\ edit = NoEdit
    /\ CallsIdle
    /\ PipelineIdle

NextPipeline ==
    \/ \E r \in RunIds : \E t \in Triggers : Trigger(r, t)
    \/ \E r \in RunIds : \E j \in Jobs : StartJob(r, j)
    \/ \E r \in RunIds : \E j \in Jobs : SkipJob(r, j)
    \/ \E r \in RunIds : \E j \in Jobs : StepSucceeds(r, j)
    \/ \E r \in RunIds : \E j \in Jobs : StepFails(r, j)

SpecPipeline == InitPipeline /\ [][NextPipeline]_vars

\* ------------------------------------------------ vocabulary of the claims
HasNonWhiteSpace(S) == \E i \in 1 .. Len(S) : ~IsWhiteSpace(S[i])

\* number of maximal runs of non-whitespace characters of S
NumRuns(S) ==
    Cardinality({i \in 1 .. Len(S) :
                    ~IsWhiteSpace(S[i]) /\ (i = 1 \/ IsWhiteSpace(S[i - 1]))})

\* number of non-whitespace characters of S
NumNonWhiteSpace(S) == Cardinality({i \in 1 .. Len(S) : ~IsWhiteSpace(S[i])})

\* the text the last Insert was applied to
PrevChars ==
    SubSeq(text.chars, 1, edit.pos)
        \o SubSeq(text.chars, edit.pos + edit.len + 1, Len(text.chars))

\* the insertion point after S[k] lies in the gap between two adjacent words
BetweenWords(S, k) ==
    /\ \E i \in 1 .. k : ~IsWhiteSpace(S[i])
    /\ \E j \in (k + 1) .. Len(S) : ~IsWhiteSpace(S[j])
    /\ IsWhiteSpace(S[k]) \/ IsWhiteSpace(S[k + 1])

\* the parts of the text before and after the run the last Insert added
BeforeInsert == SubSeq(text.chars, 1, edit.pos)

AfterInsert == SubSeq(text.chars, edit.pos + edit.len + 1, Len(text.chars))

\* S with every hyphen replaced by the letter 'a'
Alphabetic(S) == [i \in 1 .. Len(S) |-> IF S[i] = 45 THEN 97 ELSE S[i]]

\* ---------------------------------------------------------------- claims
\* C1: for every string with at least one non-whitespace character,
\* wordCount returns the number of maximal runs of non-whitespace characters
C1_WordCountIsNumberOfRuns ==
    (fn = "wordCount" /\ IsString(text) /\ HasNonWhiteSpace(text.chars))
        => ret = Return(NumRuns(text.chars))

C1_Witness ==
    /\ fn = "wordCount"
    /\ text = Str(<<97, 9, 32, 45, 97>>)
    /\ ret = Return(2)

\* C2: wordCount returns 0 for undefined, null, the empty string and every
\* string made only of whitespace characters
C2_WordCountZero ==
    (fn = "wordCount" /\ ~HasNonWhiteSpace(text.chars)) => ret = Return(0)

C2_Witness ==
    /\ fn = "wordCount"
    /\ text = Str(<<32, 9, 10>>)
    /\ ret = Return(0)

\* C3: charCount returns the number of non-whitespace characters of its
\* argument (space, tab and newline excluded alike), and 0 for undefined,
\* null, empty and whitespace-only input
C3_CharCountNonWhiteSpace ==
    fn = "charCount" => ret = Return(NumNonWhiteSpace(text.chars))

C3_Witness ==
    /\ fn = "charCount"
    /\ text = Str(<<97, 9, 45, 10, 97>>)
    /\ ret = Return(3)

\* C4: readingTime returns the ceiling of wordCount / 200, the smallest
\* integer m with 200 * m >= wordCount
C4_ReadingTimeIsCeiling ==
    fn = "readingTime" =>
        \A words \in {wordCount(text).value} :
            /\ ret.type = "normal"
            /\ ret.value \in Nat
            /\ 200 * ret.value >= words
            /\ 200 * (ret.value - 1) < words

C4_Witness ==
    /\ fn = "readingTime"
    /\ wordCount(text) = Return(250)
    /\ ret = Return(2)

\* C5: readingTime is 0 for 0 words, 1 for 1 to 200 words, 2 for 201 words;
\* 200 * k words give k and 200 * k + 1 words give k + 1
C5_ReadingTimeBoundaries ==
    fn = "readingTime" =>
        \A n \in {NumRuns(text.chars)} :
            /\ n = 0 => ret = Return(0)
            /\ n \in 1 .. 200 => ret = Return(1)
            /\ n = 201 => ret = Return(2)
            /\ \A k \in 0 .. (n \div 200) :
                 /\ n = 200 * k => ret = Return(k)
                 /\ n = 200 * k + 1 => ret = Return(k + 1)

C5_Witness ==
    /\ fn = "readingTime"
    /\ NumRuns(text.chars) = 401
    /\ ret = Return(3)

\* C6: inserting a run of whitespace between two adjacent words leaves
\* wordCount unchanged, and no empty token is counted
C6_InsertBetweenWords ==
    (fn = "wordCount" /\ edit.kind = "insert" /\ BetweenWords(PrevChars, edit.pos))
        => /\ ret = wordCount(Str(PrevChars))
           /\ \A i \in 1 .. Len(split(trim(text.chars))) :
                split(trim(text.chars))[i] # << >>

C6_Witness ==
    /\ fn = "wordCount"
    /\ edit = [kind |-> "insert", pos |-> 2, len |-> 2]
    /\ text = Str(<<97, 32, 9, 10, 45>>)
    /\ ret = Return(2)

\* C7: prepending or appending a run of whitespace to a string leaves
\* wordCount unchanged
C7_PadWithWhiteSpace ==
    (fn = "wordCount" /\ edit.kind = "insert"
        /\ edit.pos \in {0, Len(PrevChars)})
        => ret = wordCount(Str(PrevChars))

C7_Witness ==
    /\ fn = "wordCount"
    /\ edit = [kind |-> "insert", pos |-> 3, len |-> 2]
    /\ text = Str(<<97, 32, 97, 10, 9>>)
    /\ ret = Return(2)

\* C8: each of the three functions returns a number for every string,
\* null and undefined; none throws
C8_Total ==
    fn # "none" => (ret.type = "normal" /\ ret.value \in Nat)

C8_Witness ==
    /\ fn = "charCount"
    /\ text = Null
    /\ ret = Return(0)

\* C9: wordCount is 1 for every non-empty string without whitespace
C9_SingleWord ==
    (fn = "wordCount" /\ IsString(text) /\ Len(text.chars) > 0
        /\ \A i \in 1 .. Len(text.chars) : ~IsWhiteSpace(text.chars[i]))
        => ret = Return(1)

C9_Witness ==
    /\ fn = "wordCount"
    /\ text = Str(<<97, 45, 97, 97, 45>>)
    /\ ret = Return(1)

\* C10: a token made only of punctuation counts as one word, as an
\* alphabetic token in its place would
C10_PunctuationToken ==
    (fn = "wordCount" /\ IsString(text))
        => ret = wordCount(Str(Alphabetic(text.chars)))

C10_Witness ==
    /\ fn = "wordCount"
    /\ text = Str(<<97, 32, 45, 32, 97>>)
    /\ ret = Return(3)

\* C14: for every string, wordCount <= charCount, and wordCount is 0
\* exactly when charCount is 0
C14_WordCountAtMostCharCount ==
    (fn = "wordCount" /\ IsString(text)) =>
        \A cc \in {charCount(text)} :
            /\ ret.type = "normal" /\ cc.type = "normal"
            /\ ret.value <= cc.value
            /\ (ret.value = 0) <=> (cc.value = 0)

C14_Witness ==
    /\ fn = "wordCount"
    /\ text = Str(<<97, 97, 32, 45>>)
    /\ ret = Return(2)
    /\ charCount(text) = Return(3)

\* C15: for all strings a, b and every non-empty whitespace run w,
\* wordCount(a + w + b) = wordCount(a) + wordCount(b) and
\* charCount(a + w + b) = charCount(a) + charCount(b)
C15_Additive ==
    /\ (fn = "wordCount" /\ edit.kind = "insert") =>
          ret = Return(wordCount(Str(BeforeInsert)).value
                       + wordCount(Str(AfterInsert)).value)
    /\ (fn = "charCount" /\ edit.kind = "insert") =>
          ret = Return(charCount(Str(BeforeInsert)).value
                       + charCount(Str(AfterInsert)).value)

C15_Witness ==
    /\ fn = "wordCount"
    /\ edit = [kind |-> "insert", pos |-> 2, len |-> 1]
    /\ text = Str(<<97, 32, 10, 45, 97>>)
    /\ ret = Return(2)

Started(run, j) == run.status[j] \in {"in_progress", "success", "failure"}

\* C12: in every run build-and-push starts only after test succeeded and
\* deploy only after build-and-push succeeded; nothing is pushed or
\* deployed by a run unless every previous stage of that run passed
C12_StagesGated ==
    \A r \in RunIds :
        /\ Started(runs[r], "build-and-push") => runs[r].status["test"] = "success"
        /\ Started(runs[r], "deploy") =>
              /\ runs[r].status["build-and-push"] = "success"
              /\ runs[r].status["test"] = "success"
        /\ runs[r].status["test"] = "failure" =>
              /\ ~Started(runs[r], "build-and-push")
              /\ ~Started(runs[r], "deploy")
        /\ runs[r].status["build-and-push"] = "failure" => ~Started(runs[r], "deploy")
        /\ pages = r =>
              /\ runs[r].status["test"] = "success"
              /\ runs[r].status["build-and-push"] = "success"

C12_Witness ==
    /\ runs[1].status["test"] = "success"
    /\ runs[1].status["build-and-push"] = "success"
    /\ runs[1].status["deploy"] = "success"
    /\ pages = 1
    /\ runs[2].status["test"] = "failure"
    /\ runs[2].status["build-and-push"] = "skipped"
    /\ runs[2].status["deploy"] = "skipped"

\* C13: a run for a push to another branch than main, or for a pull
\* request, runs test but never starts build-and-push or deploy: it
\* pushes no image and deploys nothing
C13_DeliveryOnlyOnMain ==
    \A r \in RunIds :
        (runs[r].event # "none" /\ runs[r].ref # "refs/heads/main") =>
            /\ runs[r].status["test"] # "skipped"
            /\ ~Started(runs[r], "build-and-push")
            /\ ~Started(runs[r], "deploy")
            /\ r \notin registry.shas
            /\ registry.latest # r
            /\ pages # r

C13_Witness ==
    /\ runs[1].event = "pull_request"
    /\ runs[1].status["test"] = "success"
    /\ runs[1].status["build-and-push"] = "skipped"
    /\ runs[1].status["deploy"] = "skipped"
    /\ runs[2].ref = "refs/heads/feature"
    /\ runs[2].status["test"] = "success"
    /\ runs[2].status["build-and-push"] = "skipped"
    /\ runs[2].status["deploy"] = "skipped"
====
